---- MODULE Spec2Model ----
(***************************************************************************)
(* A model of maf::messaging::Component (Component.cpp) and of the Timer   *)
(* facade (Timer.cpp): one component, its message queue, handler map,      *)
(* timer manager and worker thread, one Timer, and the threads using them. *)
(*                                                                         *)
(* Threads: "main" owns the component and calls run(); "ext" is another    *)
(* application thread; "worker" is the std::thread run(Async) spawns;      *)
(* "tmr" is the timer manager's internal thread.                           *)
(*                                                                         *)
(* MessageQueue, TimerManager and TimeoutMessage::execute are not part of  *)
(* the sources at hand; they are modelled from their documented contract.  *)
(***************************************************************************)
EXTENDS Naturals, Sequences, FiniteSets, TLC

\* ------------------------------------------------------------- bounds
\* Each specification below fixes how many calls are made in its runs.
MaxPost == 3       \* Spec: messages posted, by all producers together
MaxStop == 1       \* Spec: stop() calls made by application threads
MaxRegs == 2       \* SpecR: registerMessageHandler calls
MaxPostR == 2      \* SpecR: messages posted
MaxPostH == 1      \* SpecH: messages posted
MaxStopH == 1      \* SpecH: stop() calls made by application threads
MaxPostS == 2      \* SpecS: messages posted
MaxStopS == 2      \* SpecS: stop() calls made by application threads
MaxPostT == 2      \* SpecT: messages posted by application threads
MaxStopT == 2      \* SpecT: stop() calls made by application threads
MaxArmT == 1       \* SpecT: Timer::start calls
MaxFire == 2       \* SpecT: timer expirations
MaxPostO == 2      \* SpecO: messages posted
MaxStopO == 1      \* SpecO: stop() calls made by application threads
MaxArmO == 2       \* SpecO: Timer::start calls
MaxFireO == 2      \* SpecO: timer expirations
MaxPostC == 1      \* SpecC: messages posted
MaxFireC == 4      \* SpecC: timer expirations
MaxPostB == 1      \* SpecB: messages posted
MaxStopB == 1      \* SpecB: stop() calls made by application threads
MaxArmB == 2       \* SpecB: Timer::start calls
MaxFireB == 1      \* SpecB: timer expirations

\* ------------------------------------------------------------- domains
AppThreads == {"main", "ext"}
LoopThreads == {"main", "worker"}
Threads == {"main", "ext", "worker", "tmr"}
NoThread == "none"

NullType == "null"                       \* a MessageBasePtr holding nullptr
Types == {"A", "B", "Timeout", "CallbackExc"}
NoFunc == "nofunc"                       \* an empty std::function
UserFuncs == {"f1", "f2"}                \* functions the application registers
NoMsg == [type |-> "none", src |-> "none", n |-> 0]

VARIABLES
    lim,           \* the bounds of the specification in force
    mode,          \* LaunchMode passed to run
    entryHook,     \* onEntry passed to run: "none" (empty), "ok", "throw"
    exitHook,      \* onExit passed to run
    alive,         \* a strong reference to the component exists
    qOpen,         \* _msgQueue is Open
    queue,         \* _msgQueue contents
    accepted,      \* history: messages the queue accepted, in order
    rejected,      \* history: messages push rejected
    msgHandlers,   \* _msgHandlers: type -> function (NoFunc: no entry)
    nreg,          \* registerMessageHandler calls made
    lastReg,       \* history: latest non-empty function registered per type
    workerThread,  \* _workerThread.get_id(): NoThread when not joinable
    tlwp,          \* _tlwpInstance per thread: TRUE when bound to the component
    rpc,           \* position of main inside run(): "none", "assign", "done"
    lpc,           \* position of startMessageLoop on each loop thread
    cur,           \* message a loop thread is handling
    curf,          \* handler function copied out of the map for cur
    log,           \* history: messages popped by the loop
    spc,           \* position inside stop() per thread
    nstop,         \* stop() calls begun by application threads
    stopRes,       \* outcome of the thread's latest stop(): "none", "ret", "threw"
    stopKind,      \* history: where the thread's latest stop() was called from
    extStopDone,   \* history: a stop() from outside the started Async component returned
    inSecond,      \* history: the thread's latest stop() directly followed a stop() of its own
    lastWasStop,   \* history: the thread's latest finished call was a stop() that returned
    sent,          \* messages posted so far per producer
    hposted,       \* messages posted from inside handlers
    timerMgr,      \* _timerMgr: 0 when empty, else the manager's number
    mgrStopped,    \* per TimerManager created: stop() was called on it
    jobs,          \* TimerManager jobs that are scheduled
    nextJob,       \* IDManager: ids handed out so far
    mgrB,          \* timer manager of a second component (0: none yet)
    tId,           \* Timer::_id (0: invalidJobID)
    tCyclic,       \* Timer::_cyclic
    tMgr,          \* Timer::_myMgr (0: empty)
    narm,          \* Timer::start calls made
    tAlive,        \* the Timer object exists
    armLog,        \* history: per Timer::start, its thread and what it did
    stopMark,      \* history: callbacks and expirations so far when the
                   \* Timer's callback called Timer::stop (<<>>: it has not)
    expLog,        \* history: per expiration, whether the component still existed
    expJob,        \* history: per expiration, the id of the job that expired
    cbLog,         \* history: thread and expiration of each call of the Timer's user callback
    aborted        \* std::terminate was called

cfgv == <<lim, mode, entryHook, exitHook>>
qv == <<qOpen, queue, accepted, rejected>>
regv == <<msgHandlers, nreg, lastReg>>
loopv == <<lpc, cur, curf>>
stopv == <<spc, nstop, stopRes, stopKind, extStopDone, inSecond>>
mgrv == <<timerMgr, mgrStopped, jobs, nextJob, mgrB>>
timv == <<tId, tCyclic, tMgr, narm, tAlive, armLog, stopMark>>
expv == <<expLog, expJob>>

vars == <<cfgv, alive, qv, regv, workerThread, tlwp, rpc, loopv, log, stopv,
          lastWasStop, sent, hposted, mgrv, timv, expv, cbLog, aborted>>

\* ------------------------------------------------------------- MessageQueue
\* push: enqueue at the tail; rejected when the queue is Closed.
MQ_push(q, open, m) == IF open THEN Append(q, m) ELSE q

\* wait returns true with the head when a message is available.
MQ_canPop(q) == Len(q) > 0

\* wait returns false when the queue is Closed and drained.
MQ_finished(q, open) == ~open /\ Len(q) = 0

\* ------------------------------------------------------------- handler map
\* std::map::insert: keeps the existing entry when the key is present.
MapInsert(map, ty, f) == IF map[ty] = NoFunc THEN [map EXCEPT ![ty] = f] ELSE map

\* ComponentImpl(): the two handlers the constructor registers.
CtorHandlers ==
    MapInsert(MapInsert([ty \in Types |-> NoFunc], "Timeout", "execTimeout"),
              "CallbackExc", "execCallback")

InitCommon ==
    /\ mode \in {"Sync", "Async"}
    /\ alive = TRUE
    /\ qOpen = TRUE
    /\ queue = <<>>
    /\ accepted = <<>>
    /\ rejected = {}
    /\ msgHandlers = CtorHandlers
    /\ nreg = 0
    /\ lastReg = CtorHandlers
    /\ workerThread = NoThread
    /\ tlwp = [t \in Threads |-> FALSE]
    /\ rpc = "none"
    /\ lpc = [t \in LoopThreads |-> "none"]
    /\ cur = [t \in LoopThreads |-> NoMsg]
    /\ curf = [t \in LoopThreads |-> NoFunc]
    /\ log = <<>>
    /\ spc = [t \in Threads |-> "idle"]
    /\ nstop = 0
    /\ stopRes = [t \in Threads |-> "none"]
    /\ stopKind = [t \in Threads |-> "none"]
    /\ extStopDone = FALSE
    /\ inSecond = [t \in Threads |-> FALSE]
    /\ lastWasStop = [t \in Threads |-> FALSE]
    /\ sent = [t \in Threads |-> 0]
    /\ hposted = 0
    /\ timerMgr = 0
    /\ mgrStopped = <<>>
    /\ jobs = {}
    /\ nextJob = 0
    /\ mgrB = 0
    /\ tId = 0
    /\ tCyclic = FALSE
    /\ tMgr = 0
    /\ narm = 0
    /\ tAlive = TRUE
    /\ armLog = <<>>
    /\ stopMark = <<>>
    /\ expLog = <<>>
    /\ expJob = <<>>
    /\ cbLog = <<>>
    /\ aborted = FALSE

\* ------------------------------------------------------------- helpers
\* The loop of thread t is between its entry and its return.
InLoop(t) == t \in LoopThreads /\ lpc[t] \in {"entry", "wait", "handler"}

\* Application thread t is outside every call on the component and may start one.
Free(t) ==
    /\ ~aborted
    /\ alive
    /\ t \in AppThreads
    /\ spc[t] = "idle"
    /\ ~InLoop(t)
    /\ (t = "main" => rpc # "assign")

\* Loop thread t is in the body of handler function f, outside any call.
InHandler(t, f) ==
    /\ ~aborted
    /\ t \in LoopThreads
    /\ lpc[t] = "handler"
    /\ curf[t] = f
    /\ spc[t] = "idle"

\* Loop thread t is in the body of a handler the application registered.
InUserHandler(t) == \E f \in UserFuncs : InHandler(t, f)

\* Thread t makes a call other than stop().
OtherCall(t) == lastWasStop' = [lastWasStop EXCEPT ![t] = FALSE]

\* The handler of loop thread t returns, or throws into the loop's catch
\* frames: either way the loop goes back to wait.
HandlerEnds(t) ==
    /\ lpc' = [lpc EXCEPT ![t] = "wait"]
    /\ cur' = [cur EXCEPT ![t] = NoMsg]
    /\ curf' = [curf EXCEPT ![t] = NoFunc]

\* _msgQueue.push(msg) inside postMessage's catch frames.
Push(m) ==
    /\ queue' = MQ_push(queue, qOpen, m)
    /\ accepted' = IF qOpen THEN Append(accepted, m) ELSE accepted
    /\ rejected' = IF qOpen THEN rejected ELSE rejected \cup {m}
    /\ UNCHANGED qOpen

\* ------------------------------------------------------------- run
\* run(Sync): startMessageLoop runs on the caller's thread.
RunSync ==
    /\ Free("main") /\ rpc = "none" /\ mode = "Sync"
    /\ rpc' = "done"
    /\ lpc' = [lpc EXCEPT !["main"] = "entry"]
    /\ OtherCall("main")
    /\ UNCHANGED <<cfgv, alive, qv, regv, workerThread, tlwp, cur, curf, log,
                   stopv, sent, hposted, mgrv, timv, expv, cbLog, aborted>>

\* Mutant: the else is lost, so run(Async) also runs the loop on its caller.
RunAsyncSpawn_inline ==
    /\ Free("main") /\ rpc = "none" /\ mode = "Async"
    /\ rpc' = "assign"
    /\ lpc' = [lpc EXCEPT !["worker"] = "entry", !["main"] = "entry"]
    /\ OtherCall("main")
    /\ UNCHANGED <<cfgv, alive, qv, regv, workerThread, tlwp, cur, curf, log,
                   stopv, sent, hposted, mgrv, timv, expv, cbLog, aborted>>

\* run(Async), first half: std::thread{...} starts the worker.
RunAsyncSpawn ==
    /\ Free("main") /\ rpc = "none" /\ mode = "Async"
    /\ rpc' = "assign"
    /\ lpc' = [lpc EXCEPT !["worker"] = "entry"]
    /\ OtherCall("main")
    /\ UNCHANGED <<cfgv, alive, qv, regv, workerThread, tlwp, cur, curf, log,
                   stopv, sent, hposted, mgrv, timv, expv, cbLog, aborted>>

\* run(Async), second half: the temporary is move-assigned to _workerThread.
RunAsyncAssign ==
    /\ ~aborted /\ rpc = "assign"
    /\ rpc' = "done"
    /\ workerThread' = "worker"
    /\ UNCHANGED <<cfgv, alive, qv, regv, tlwp, loopv, log, stopv, lastWasStop, sent,
                   hposted, mgrv, timv, expv, cbLog, aborted>>

\* ------------------------------------------------------------- postMessage
postMessage(p, ty) ==
    /\ Free(p)
    /\ sent["main"] + sent["ext"] + hposted < lim.post
    /\ Push([type |-> ty, src |-> p, n |-> sent[p] + 1])
    /\ sent' = [sent EXCEPT ![p] = @ + 1]
    /\ OtherCall(p)
    /\ UNCHANGED <<cfgv, alive, regv, workerThread, tlwp, rpc, loopv, log,
                   stopv, hposted, mgrv, timv, expv, cbLog, aborted>>

\* ------------------------------------------------------------- registerMessageHandler
registerMessageHandler(t, ty, f) ==
    /\ Free(t)
    /\ nreg < lim.reg
    /\ nreg' = nreg + 1
    /\ IF f # NoFunc
       THEN /\ msgHandlers' = MapInsert(msgHandlers, ty, f)
            /\ lastReg' = [lastReg EXCEPT ![ty] = f]
       ELSE UNCHANGED <<msgHandlers, lastReg>>
    /\ OtherCall(t)
    /\ UNCHANGED <<cfgv, alive, qv, workerThread, tlwp, rpc, loopv, log, stopv,
                   sent, hposted, mgrv, timv, expv, cbLog, aborted>>

\* ------------------------------------------------------------- startMessageLoop
\* A hook runs when it is not empty and _compref.lock() succeeds.
HookRuns(h) == h # "none" /\ alive

\* An exception leaves startMessageLoop on thread t: out of run() in Sync
\* mode, out of the worker's thread function (std::terminate) in Async mode.
Escapes(t) ==
    /\ lpc' = [lpc EXCEPT ![t] = "escaped"]
    /\ aborted' = (t = "worker")

\* _compref = _tlwpInstance = compref, then onEntry.
LoopEntry(t) ==
    /\ ~aborted /\ t \in LoopThreads /\ lpc[t] = "entry"
    /\ tlwp' = [tlwp EXCEPT ![t] = TRUE]
    /\ IF HookRuns(entryHook) /\ entryHook = "throw"
       THEN Escapes(t)
       ELSE lpc' = [lpc EXCEPT ![t] = "wait"] /\ UNCHANGED aborted
    /\ UNCHANGED <<cfgv, alive, qv, regv, workerThread, rpc, cur, curf, log,
                   stopv, lastWasStop, sent, hposted, mgrv, timv, expv, cbLog>>

\* One pass of while(_msgQueue.wait(msg)) up to the call of the handler: pop
\* the head; a null message and a message without handler are logged and
\* dropped, otherwise the handler copied out of the map is called.
LoopNext(t) ==
    /\ ~aborted /\ t \in LoopThreads /\ lpc[t] = "wait"
    /\ MQ_canPop(queue)
    /\ LET m == Head(queue)
           f == IF m.type = NullType THEN NoFunc ELSE msgHandlers[m.type]
       IN /\ queue' = Tail(queue)
          /\ log' = Append(log, [m |-> m, f |-> f, thr |-> t,
                                  latest |-> IF m.type = NullType THEN NoFunc
                                             ELSE lastReg[m.type],
                                  out |-> IF m.type = NullType THEN "null"
                                          ELSE IF f = NoFunc THEN "nohandler"
                                          ELSE "called"])
          /\ IF f # NoFunc
             THEN /\ lpc' = [lpc EXCEPT ![t] = "handler"]
                  /\ cur' = [cur EXCEPT ![t] = m]
                  /\ curf' = [curf EXCEPT ![t] = f]
             ELSE UNCHANGED loopv
    /\ OtherCall(t)
    /\ UNCHANGED <<cfgv, alive, qOpen, accepted, rejected, regv, workerThread,
                   tlwp, rpc, stopv, sent, hposted, mgrv, timv, expv, cbLog,
                   aborted>>

\* Mutant: the loop ends as soon as the queue is closed, drained or not.
LoopExit_onClose(t) ==
    /\ ~aborted /\ t \in LoopThreads /\ lpc[t] = "wait"
    /\ ~qOpen
    /\ lpc' = [lpc EXCEPT ![t] = "done"]
    /\ UNCHANGED <<cfgv, alive, qv, regv, workerThread, tlwp, rpc, cur, curf,
                   log, stopv, lastWasStop, sent, hposted, mgrv, timv, expv,
                   cbLog, aborted>>

\* wait returns false: the loop ends, then onExit.
LoopExit(t) ==
    /\ ~aborted /\ t \in LoopThreads /\ lpc[t] = "wait"
    /\ MQ_finished(queue, qOpen)
    /\ IF HookRuns(exitHook) /\ exitHook = "throw"
       THEN Escapes(t)
       ELSE lpc' = [lpc EXCEPT ![t] = "done"] /\ UNCHANGED aborted
    /\ UNCHANGED <<cfgv, alive, qv, regv, workerThread, tlwp, rpc, cur, curf,
                   log, stopv, lastWasStop, sent, hposted, mgrv, timv, expv, cbLog>>

\* ------------------------------------------------------------- handlers
\* What a registered handler does is up to the application; each action
\* below is one thing its body may do before it ends.

\* The handler returns normally.
HandlerOk(t) ==
    /\ InUserHandler(t)
    /\ HandlerEnds(t)
    /\ UNCHANGED <<cfgv, alive, qv, regv, workerThread, tlwp, rpc, log, stopv, lastWasStop,
                   sent, hposted, mgrv, timv, expv, cbLog, aborted>>

\* Mutant: the catch frame posts the message again for another try.
HandlerThrow_requeue(t) ==
    /\ InUserHandler(t)
    /\ log' = [log EXCEPT ![Len(log)].out = "threw"]
    /\ queue' = MQ_push(queue, qOpen, cur[t])
    /\ HandlerEnds(t)
    /\ UNCHANGED <<cfgv, alive, qOpen, accepted, rejected, regv, workerThread,
                   tlwp, rpc, stopv, lastWasStop, sent, hposted, mgrv, timv,
                   expv, cbLog, aborted>>

\* Mutant: no catch frame around the handler, its exception leaves the loop.
HandlerThrow_uncaught(t) ==
    /\ InUserHandler(t)
    /\ log' = [log EXCEPT ![Len(log)].out = "threw"]
    /\ lpc' = [lpc EXCEPT ![t] = "escaped"]
    /\ aborted' = (t = "worker")
    /\ UNCHANGED <<cfgv, alive, qv, regv, workerThread, tlwp, rpc, cur, curf,
                   stopv, lastWasStop, sent, hposted, mgrv, timv, expv, cbLog>>

\* The handler throws: the loop's catch frames log the exception.
HandlerThrow(t) ==
    /\ InUserHandler(t)
    /\ log' = [log EXCEPT ![Len(log)].out = "threw"]
    /\ HandlerEnds(t)
    /\ UNCHANGED <<cfgv, alive, qv, regv, workerThread, tlwp, rpc, stopv, lastWasStop,
                   sent, hposted, mgrv, timv, expv, cbLog, aborted>>

\* The handler posts a message to its own component and returns.
HandlerPost(t, ty) ==
    /\ InUserHandler(t)
    /\ sent["main"] + sent["ext"] + hposted < lim.post
    /\ Push([type |-> ty, src |-> "handler", n |-> hposted + 1])
    /\ hposted' = hposted + 1
    /\ HandlerEnds(t)
    /\ UNCHANGED <<cfgv, alive, regv, workerThread, tlwp, rpc, log, stopv, lastWasStop,
                   sent, mgrv, timv, expv, cbLog, aborted>>

\* The built-in handler of CallbackExcMsg: cbExcMsg->execute().
HandlerExecCallback(t) ==
    /\ InHandler(t, "execCallback")
    /\ HandlerEnds(t)
    /\ UNCHANGED <<cfgv, alive, qv, regv, workerThread, tlwp, rpc, log, stopv, lastWasStop,
                   sent, hposted, mgrv, timv, expv, cbLog, aborted>>

\* The built-in handler of TimeoutMessage: timeoutMsg->execute() calls the
\* Timer's user callback on the thread of the loop.
HandlerExecTimeout(t) ==
    /\ InHandler(t, "execTimeout")
    /\ cbLog' = Append(cbLog, [thr |-> t, n |-> cur[t].n])
    /\ HandlerEnds(t)
    /\ UNCHANGED <<cfgv, alive, qv, regv, workerThread, tlwp, rpc, log, stopv, lastWasStop,
                   sent, hposted, mgrv, timv, expv, aborted>>

\* ------------------------------------------------------------- stop
\* Where a stop() that thread t begins now is called from.
KindOfStop(t) ==
    IF InLoop(t) THEN "self"
    ELSE IF rpc = "none" THEN "pre"
    ELSE IF mode = "Sync" THEN "extSync"
    ELSE IF rpc = "assign" THEN "extRace"
    ELSE "extAsync"

\* stop() on thread t ends with outcome res ("ret": it returns, "threw":
\* std::thread::join threw std::system_error). Inside a handler the handler
\* ends with it: it returns, or the loop's catch frames take the exception.
StopEnds(t, res) ==
    /\ spc' = [spc EXCEPT ![t] = "idle"]
    /\ stopRes' = [stopRes EXCEPT ![t] = res]
    /\ extStopDone' = (\/ extStopDone
                       \/ res = "ret" /\ stopKind[t] \in {"extAsync", "extRace"})
    /\ lastWasStop' = [lastWasStop EXCEPT ![t] = (res = "ret")]
    /\ UNCHANGED <<nstop, stopKind, inSecond>>
    /\ IF t \in LoopThreads /\ lpc[t] = "handler"
       THEN HandlerEnds(t)
       ELSE UNCHANGED loopv

\* stop() goes on to its next statement.
StopGoes(t, pc) ==
    /\ spc' = [spc EXCEPT ![t] = pc]
    /\ UNCHANGED <<nstop, stopRes, stopKind, extStopDone, inSecond,
                   lastWasStop, loopv>>

\* stop() is entered on thread t and runs its first statement:
\* _msgQueue.close().
StopCall(t) ==
    /\ qOpen' = FALSE
    /\ spc' = [spc EXCEPT ![t] = "timer"]
    /\ stopRes' = [stopRes EXCEPT ![t] = "none"]
    /\ stopKind' = [stopKind EXCEPT ![t] = KindOfStop(t)]
    /\ inSecond' = [inSecond EXCEPT ![t] = lastWasStop[t]]
    /\ UNCHANGED <<cfgv, alive, queue, accepted, rejected, regv, workerThread,
                   tlwp, rpc, loopv, log, extStopDone, lastWasStop, sent,
                   hposted, mgrv, timv, expv, cbLog, aborted>>

\* An application thread calls stop().
StopBegin(t) ==
    /\ Free(t)
    /\ nstop < lim.stop
    /\ nstop' = nstop + 1
    /\ StopCall(t)

\* A handler calls stop() on its own component, from the loop's thread.
HandlerStop(t) ==
    /\ InUserHandler(t)
    /\ UNCHANGED nstop
    /\ StopCall(t)

\* TimerManager::stop(): the manager ends and all its jobs are cancelled.
TM_stopAll(js, m) == {j \in js : j.mgr # m}

\* if (_timerMgr) { _timerMgr->stop(); _timerMgr.reset(); }
StopTimer(t) ==
    /\ ~aborted /\ spc[t] = "timer"
    /\ IF timerMgr # 0
       THEN /\ mgrStopped' = [mgrStopped EXCEPT ![timerMgr] = TRUE]
            /\ jobs' = TM_stopAll(jobs, timerMgr)
            /\ timerMgr' = 0
       ELSE UNCHANGED <<timerMgr, mgrStopped, jobs>>
    /\ StopGoes(t, "check")
    /\ UNCHANGED <<cfgv, alive, qv, regv, workerThread, tlwp, rpc, log, sent,
                   hposted, nextJob, mgrB, timv, expv, cbLog, aborted>>

\* What _workerThread.join() called by thread t on handle h does at once:
\* "wait" for the worker, or "threw". Joining one's own thread throws
\* std::system_error; a second concurrent join of the same thread is
\* undefined: it throws or it waits as well.
JoinCallOutcomes(t, h) ==
    IF h = t THEN {"threw"}
    ELSE IF \E u \in Threads : u # t /\ spc[u] = "joining" THEN {"threw", "wait"}
    ELSE {"wait"}

\* if (this_thread::get_id() != _workerThread.get_id())
\*     if (_workerThread.joinable()) _workerThread.join();
\* What stop() on thread t does when get_id() reads id and joinable() reads
\* handle h: "ret" when it returns without joining, else what join does.
CheckOutcomes(t, id, h) ==
    IF t = id THEN {"ret"}
    ELSE IF h = NoThread THEN {"ret"}
    ELSE JoinCallOutcomes(t, h)

\* The thread check and the join of stop(), _workerThread not being written
\* meanwhile.
StopCheck(t) ==
    /\ ~aborted /\ spc[t] = "check"
    /\ \E o \in CheckOutcomes(t, workerThread, workerThread) :
          IF o = "wait" THEN StopGoes(t, "joining") ELSE StopEnds(t, o)
    /\ UNCHANGED <<cfgv, alive, qv, regv, workerThread, tlwp, rpc, log, sent,
                   hposted, mgrv, timv, expv, cbLog, aborted>>

\* The same while run(Async) has started the worker and not yet stored its
\* handle: the reads race with the store. Here get_id() reads the empty
\* handle and joinable() the stored one.
StopCheckRaced(t) ==
    /\ ~aborted /\ spc[t] = "check"
    /\ rpc = "assign"
    /\ rpc' = "done"
    /\ workerThread' = "worker"
    /\ \E o \in CheckOutcomes(t, NoThread, "worker") :
          IF o = "wait" THEN StopGoes(t, "joining") ELSE StopEnds(t, o)
    /\ UNCHANGED <<cfgv, alive, qv, regv, tlwp, log, sent, hposted, mgrv,
                   timv, expv, cbLog, aborted>>

\* How a join that waited can end once the worker's function has returned:
\* the join that finds the handle still set returns; one that finds it
\* already reset by another join returns or throws.
JoinEndOutcomes == IF workerThread = NoThread THEN {"ret", "threw"} ELSE {"ret"}

\* _workerThread.join() ends: the worker's thread function has returned.
StopJoined(t) ==
    /\ ~aborted /\ spc[t] = "joining"
    /\ lpc["worker"] = "done"
    /\ workerThread' = NoThread
    /\ \E o \in JoinEndOutcomes : StopEnds(t, o)
    /\ UNCHANGED <<cfgv, alive, qv, regv, tlwp, rpc, log, sent, hposted, mgrv,
                   timv, expv, cbLog, aborted>>

\* ------------------------------------------------------------- ~ComponentImpl
\* The last strong reference is dropped by its owner: weak handles expire,
\* then the destructor calls stop().
Destroy ==
    /\ Free("main") /\ spc["ext"] = "idle"
    /\ alive' = FALSE
    /\ spc' = [spc EXCEPT !["main"] = "close"]
    /\ stopRes' = [stopRes EXCEPT !["main"] = "none"]
    /\ stopKind' = [stopKind EXCEPT !["main"] = "dtor"]
    /\ inSecond' = [inSecond EXCEPT !["main"] = FALSE]
    /\ OtherCall("main")
    /\ UNCHANGED <<cfgv, qv, regv, workerThread, tlwp, rpc, loopv, log, nstop,
                   extStopDone, sent, hposted, mgrv, timv, expv, cbLog, aborted>>

\* The destructor's stop(): _msgQueue.close().
StopClose(t) ==
    /\ ~aborted /\ spc[t] = "close"
    /\ qOpen' = FALSE
    /\ StopGoes(t, "timer")
    /\ UNCHANGED <<cfgv, alive, queue, accepted, rejected, regv, workerThread,
                   tlwp, rpc, log, sent, hposted, mgrv, timv, expv, cbLog,
                   aborted>>

\* ------------------------------------------------------------- TimerManager
\* isRunning(id): a job with that id is scheduled in manager m.
TM_isRunning(js, m, id) == \E j \in js : j.mgr = m /\ j.id = id

\* stop(id): cancels the job if present.
TM_stop(js, m, id) == {j \in js : ~(j.mgr = m /\ j.id = id)}

\* setCyclic(id, cyclic): flips the cyclicity of an existing job.
TM_setCyclic(js, m, id, c) ==
    {IF j.mgr = m /\ j.id = id THEN [j EXCEPT !.cyclic = c] ELSE j : j \in js}

\* start(duration, callback, cyclic): registers a new job under a fresh id.
TM_start(js, m, id, c) == js \cup {[mgr |-> m, id |-> id, cyclic |-> c]}

\* ------------------------------------------------------------- getTimerManager
\* Component::getTimerManager() on thread t: the number of the manager it
\* returns (0: empty), a new manager being made when the component has none.
getTimerManager(t) ==
    IF tlwp[t] /\ alive
    THEN IF timerMgr = 0 THEN Len(mgrStopped) + 1 ELSE timerMgr
    ELSE 0

\* ------------------------------------------------------------- Timer
\* Mutant: Timer::start registers every job as cyclic.
HandlerArm_alwaysCyclic(t, c) ==
    /\ InUserHandler(t)
    /\ tAlive
    /\ narm < lim.arm
    /\ narm' = narm + 1
    /\ tCyclic' = c
    /\ LET js0 == IF c # tCyclic /\ tMgr # 0
                  THEN TM_setCyclic(jobs, tMgr, tId, c) ELSE jobs
           m == getTimerManager(t)
           js1 == IF TM_isRunning(js0, m, tId) THEN TM_stop(js0, m, tId) ELSE js0
       IN /\ tMgr' = m
          /\ IF m # 0
             THEN /\ timerMgr' = m
                  /\ mgrStopped' = IF timerMgr = 0 THEN Append(mgrStopped, FALSE)
                                   ELSE mgrStopped
                  /\ nextJob' = nextJob + 1
                  /\ tId' = nextJob + 1
                  /\ jobs' = TM_start(js1, m, nextJob + 1, TRUE)
             ELSE /\ jobs' = js0
                  /\ UNCHANGED <<timerMgr, mgrStopped, nextJob, tId>>
    /\ armLog' = Append(armLog, [thr |-> t, loop |-> TRUE,
                                  run |-> TM_isRunning(jobs', tMgr', tId')])
    /\ HandlerEnds(t)
    /\ UNCHANGED <<cfgv, alive, qv, regv, workerThread, tlwp, rpc, log, stopv,
                   lastWasStop, sent, hposted, mgrB, tAlive, stopMark, expv,
                   cbLog, aborted>>

\* Timer::setCyclic(c) then Timer::start(ms, callback), callback not empty,
\* called by a handler on loop thread t.
HandlerArm(t, c) ==
    /\ InUserHandler(t)
    /\ tAlive
    /\ narm < lim.arm
    /\ narm' = narm + 1
    /\ tCyclic' = c
    /\ LET js0 == IF c # tCyclic /\ tMgr # 0
                  THEN TM_setCyclic(jobs, tMgr, tId, c) ELSE jobs
           m == getTimerManager(t)
           js1 == IF TM_isRunning(js0, m, tId) THEN TM_stop(js0, m, tId) ELSE js0
       IN /\ tMgr' = m
          /\ IF m # 0
             THEN /\ timerMgr' = m
                  /\ mgrStopped' = IF timerMgr = 0 THEN Append(mgrStopped, FALSE)
                                   ELSE mgrStopped
                  /\ nextJob' = nextJob + 1
                  /\ tId' = nextJob + 1
                  /\ jobs' = TM_start(js1, m, nextJob + 1, c)
             ELSE /\ jobs' = js0
                  /\ UNCHANGED <<timerMgr, mgrStopped, nextJob, tId>>
    /\ armLog' = Append(armLog, [thr |-> t, loop |-> TRUE,
                                  run |-> TM_isRunning(jobs', tMgr', tId')])
    /\ HandlerEnds(t)
    /\ UNCHANGED <<cfgv, alive, qv, regv, workerThread, tlwp, rpc, log, stopv,
                   lastWasStop, sent, hposted, mgrB, tAlive, stopMark, expv,
                   cbLog, aborted>>

\* Mutant: with the component gone, onTimeout calls the user callback itself.
onTimeout_direct(j) ==
    /\ ~aborted
    /\ j \in jobs /\ ~mgrStopped[j.mgr]
    /\ Len(expLog) < lim.fire
    /\ expLog' = Append(expLog, alive)
    /\ expJob' = Append(expJob, j.id)
    /\ LET js0 == IF j.cyclic THEN jobs ELSE jobs \ {j}
       IN IF alive
          THEN /\ Push([type |-> "Timeout", src |-> "tmr", n |-> Len(expLog) + 1])
               /\ jobs' = js0
               /\ tId' = IF tCyclic THEN tId ELSE 0
               /\ UNCHANGED cbLog
          ELSE /\ jobs' = IF tCyclic /\ tMgr # 0 THEN TM_stop(js0, tMgr, tId) ELSE js0
               /\ tId' = 0
               /\ cbLog' = Append(cbLog, [thr |-> "tmr", n |-> Len(expLog) + 1])
               /\ UNCHANGED qv
    /\ UNCHANGED <<cfgv, alive, regv, workerThread, tlwp, rpc, loopv, log,
                   stopv, lastWasStop, sent, hposted, timerMgr, mgrStopped,
                   nextJob, mgrB, tCyclic, tMgr, narm, tAlive, armLog,
                   stopMark, aborted>>

\* Job j expires and the manager's thread runs the Timer's onTimeout: the
\* TimeoutMessage is posted when componentRef.lock() succeeds; a one-shot
\* job is gone once it has expired.
onTimeout(j) ==
    /\ ~aborted
    /\ j \in jobs /\ ~mgrStopped[j.mgr]
    /\ Len(expLog) < lim.fire
    /\ expLog' = Append(expLog, alive)
    /\ expJob' = Append(expJob, j.id)
    /\ LET js0 == IF j.cyclic THEN jobs ELSE jobs \ {j}
       IN IF alive
          THEN /\ Push([type |-> "Timeout", src |-> "tmr", n |-> Len(expLog) + 1])
               /\ jobs' = js0
               /\ tId' = IF tCyclic THEN tId ELSE 0
          ELSE /\ jobs' = IF tCyclic /\ tMgr # 0 THEN TM_stop(js0, tMgr, tId) ELSE js0
               /\ tId' = 0
               /\ UNCHANGED qv
    /\ UNCHANGED <<cfgv, alive, regv, workerThread, tlwp, rpc, loopv, log,
                   stopv, lastWasStop, sent, hposted, timerMgr, mgrStopped,
                   nextJob, mgrB, tCyclic, tMgr, narm, tAlive, armLog,
                   stopMark, cbLog, aborted>>


\* ------------------------------------------------------------- Timer, other calls
\* restart(id): re-arms an existing job from now; which jobs are scheduled
\* stays as it was.
TM_restart(js, m, id) == js

\* Timer::stop(): if (_myMgr) _myMgr->stop(_id).
TimerStop(js) == IF tMgr # 0 THEN TM_stop(js, tMgr, tId) ELSE js

\* Timer::restart(): if (_myMgr) _myMgr->restart(_id).
TimerRestart(js) == IF tMgr # 0 THEN TM_restart(js, tMgr, tId) ELSE js

\* A handler on loop thread t calls Timer::stop().
HandlerTimerStop(t) ==
    /\ InUserHandler(t)
    /\ tAlive
    /\ jobs' = TimerStop(jobs)
    /\ HandlerEnds(t)
    /\ UNCHANGED <<cfgv, alive, qv, regv, workerThread, tlwp, rpc, log, stopv,
                   lastWasStop, sent, hposted, timerMgr, mgrStopped, nextJob,
                   mgrB, timv, expv, cbLog, aborted>>

\* A handler on loop thread t calls Timer::restart().
HandlerTimerRestart(t) ==
    /\ InUserHandler(t)
    /\ tAlive
    /\ jobs' = TimerRestart(jobs)
    /\ HandlerEnds(t)
    /\ UNCHANGED <<cfgv, alive, qv, regv, workerThread, tlwp, rpc, log, stopv,
                   lastWasStop, sent, hposted, timerMgr, mgrStopped, nextJob,
                   mgrB, timv, expv, cbLog, aborted>>

\* Mutant: Timer::stop() tests _myMgr the wrong way round and cancels nothing.
CallbackStopsTimer_noStop(t) ==
    /\ InHandler(t, "execTimeout")
    /\ tAlive
    /\ cbLog' = Append(cbLog, [thr |-> t, n |-> cur[t].n])
    /\ stopMark' = IF stopMark = <<>> THEN <<Len(cbLog) + 1, Len(expLog)>>
                   ELSE stopMark
    /\ HandlerEnds(t)
    /\ UNCHANGED <<cfgv, alive, qv, regv, workerThread, tlwp, rpc, log, stopv,
                   lastWasStop, sent, hposted, mgrv, tId, tCyclic, tMgr, narm,
                   tAlive, armLog, expv, aborted>>

\* The built-in handler of TimeoutMessage runs the Timer's user callback on
\* loop thread t, and the callback calls Timer::stop().
CallbackStopsTimer(t) ==
    /\ InHandler(t, "execTimeout")
    /\ tAlive
    /\ cbLog' = Append(cbLog, [thr |-> t, n |-> cur[t].n])
    /\ jobs' = TimerStop(jobs)
    /\ stopMark' = IF stopMark = <<>> THEN <<Len(cbLog) + 1, Len(expLog)>>
                   ELSE stopMark
    /\ HandlerEnds(t)
    /\ UNCHANGED <<cfgv, alive, qv, regv, workerThread, tlwp, rpc, log, stopv,
                   lastWasStop, sent, hposted, timerMgr, mgrStopped, nextJob,
                   mgrB, tId, tCyclic, tMgr, narm, tAlive, armLog, expv,
                   aborted>>

\* ------------------------------------------------------------- Timer, other threads
\* The loop thread of a second component, which is running and stays so;
\* _tlwpInstance of that thread is bound to the second component.
OtherLoop == "loopB"

\* Component::getTimerManager() on thread t, the second component's loop
\* thread included.
TimerManagerOn(t) ==
    IF t = OtherLoop
    THEN IF mgrB = 0 THEN Len(mgrStopped) + 1 ELSE mgrB
    ELSE getTimerManager(t)

\* Thread t is outside every call on the component and outside its loop.
Outside(t) ==
    /\ ~aborted
    /\ t \in AppThreads => (spc[t] = "idle" /\ ~InLoop(t))
    /\ (t = "main" => rpc # "assign")

\* Timer::setCyclic(c) then Timer::start(ms, callback), callback not empty,
\* called by thread t, which is not the component's loop thread.
TimerStartOn(t, c) ==
    /\ Outside(t)
    /\ tAlive
    /\ narm < lim.arm
    /\ narm' = narm + 1
    /\ tCyclic' = c
    /\ LET js0 == IF c # tCyclic /\ tMgr # 0
                  THEN TM_setCyclic(jobs, tMgr, tId, c) ELSE jobs
           m == TimerManagerOn(t)
           js1 == IF TM_isRunning(js0, m, tId) THEN TM_stop(js0, m, tId) ELSE js0
           isNew == IF t = OtherLoop THEN mgrB = 0 ELSE timerMgr = 0
       IN /\ tMgr' = m
          /\ IF m # 0
             THEN /\ IF t = OtherLoop
                     THEN mgrB' = m /\ UNCHANGED timerMgr
                     ELSE timerMgr' = m /\ UNCHANGED mgrB
                  /\ mgrStopped' = IF isNew THEN Append(mgrStopped, FALSE)
                                   ELSE mgrStopped
                  /\ nextJob' = nextJob + 1
                  /\ tId' = nextJob + 1
                  /\ jobs' = TM_start(js1, m, nextJob + 1, c)
             ELSE /\ jobs' = js0
                  /\ UNCHANGED <<timerMgr, mgrB, mgrStopped, nextJob, tId>>
    /\ armLog' = Append(armLog, [thr |-> t, loop |-> (t = OtherLoop),
                                  run |-> TM_isRunning(jobs', tMgr', tId')])
    /\ UNCHANGED <<cfgv, alive, qv, regv, workerThread, tlwp, rpc, loopv, log,
                   stopv, lastWasStop, sent, hposted, tAlive, stopMark, expv,
                   cbLog, aborted>>

\* ~Timer(): stop().
TimerDestroy ==
    /\ ~aborted
    /\ tAlive
    /\ tAlive' = FALSE
    /\ jobs' = TimerStop(jobs)
    /\ UNCHANGED <<cfgv, alive, qv, regv, workerThread, tlwp, rpc, loopv, log,
                   stopv, lastWasStop, sent, hposted, timerMgr, mgrStopped,
                   nextJob, mgrB, tId, tCyclic, tMgr, narm, armLog, stopMark,
                   expv, cbLog, aborted>>

\* The jobs whose onTimeout holds a weak reference to the component.
JobsOnA == {j \in jobs : j.mgr # mgrB}

\* A job started on the second component's thread expires: its onTimeout
\* posts to the second component, which exists.
onTimeoutB(j) ==
    /\ ~aborted
    /\ j \in jobs /\ j.mgr = mgrB
    /\ jobs' = IF j.cyclic THEN jobs ELSE jobs \ {j}
    /\ tId' = IF tCyclic THEN tId ELSE 0
    /\ UNCHANGED <<cfgv, alive, qv, regv, workerThread, tlwp, rpc, loopv, log,
                   stopv, lastWasStop, sent, hposted, timerMgr, mgrStopped,
                   nextJob, mgrB, tCyclic, tMgr, narm, tAlive, armLog,
                   stopMark, expv, cbLog, aborted>>

\* A job expires after its Timer was destroyed: onTimeout reads _id and
\* _cyclic through a dangling this. It may find the memory as it was left
\* (onTimeout, onTimeoutB) or crash.
onTimeoutDangling(j) ==
    /\ ~aborted
    /\ ~tAlive
    /\ j \in jobs /\ ~mgrStopped[j.mgr]
    /\ aborted' = TRUE
    /\ UNCHANGED <<cfgv, alive, qv, regv, workerThread, tlwp, rpc, loopv, log,
                   stopv, lastWasStop, sent, hposted, mgrv, timv, expv, cbLog>>

\* ------------------------------------------------------------- specifications
NoLimits == [post |-> 0, reg |-> 0, stop |-> 0, arm |-> 0, fire |-> 0]

\* What every specification has: run() and the message loop.
RunAndLoop ==
    \/ RunSync
    \/ RunAsyncSpawn
    \/ RunAsyncAssign
    \/ \E t \in LoopThreads : LoopEntry(t)
    \/ \E t \in LoopThreads : LoopNext(t)

\* stop() called by application threads, to its end.
AppStop ==
    \/ \E t \in AppThreads : StopBegin(t)
    \/ \E t \in Threads : StopTimer(t)
    \/ \E t \in Threads : StopCheck(t)
    \/ \E t \in Threads : StopCheckRaced(t)
    \/ \E t \in Threads : StopJoined(t)
    \/ \E t \in LoopThreads : LoopExit(t)

\* Spec: posting and dispatch. Application threads post, register the
\* handler of type "A" and stop the component; handlers return, throw or post.
PostTypes == {"A", NullType}

Init ==
    /\ InitCommon /\ entryHook = "ok" /\ exitHook = "ok"
    /\ lim = [NoLimits EXCEPT !.post = MaxPost, !.reg = 1, !.stop = MaxStop]

Next ==
    \/ RunAndLoop
    \/ AppStop
    \/ \E p \in AppThreads, ty \in PostTypes : postMessage(p, ty)
    \/ \E t \in AppThreads : registerMessageHandler(t, "A", "f1")
    \/ \E t \in LoopThreads : HandlerOk(t)
    \/ \E t \in LoopThreads : HandlerThrow(t)
    \/ \E t \in LoopThreads, ty \in PostTypes : HandlerPost(t, ty)

Spec == Init /\ [][Next]_vars

\* SpecR: registration. Application threads register handlers, empty ones
\* too, for a user type and for a type the constructor has registered, and
\* post messages of both types.
TypesR == {"A", "CallbackExc"}

InitR ==
    /\ InitCommon /\ entryHook = "ok" /\ exitHook = "ok"
    /\ lim = [NoLimits EXCEPT !.post = MaxPostR, !.reg = MaxRegs]

NextR ==
    \/ RunAndLoop
    \/ \E p \in AppThreads, ty \in TypesR : postMessage(p, ty)
    \/ \E t \in AppThreads, ty \in TypesR, f \in UserFuncs \cup {NoFunc} :
          registerMessageHandler(t, ty, f)
    \/ \E t \in LoopThreads : HandlerOk(t)
    \/ \E t \in LoopThreads : HandlerExecCallback(t)

SpecR == InitR /\ [][NextR]_vars

\* SpecH: the hooks of run(). onEntry and onExit are empty, return or
\* throw; the owner may drop the component while its loop runs.
Hooks == {"none", "ok", "throw"}

InitH ==
    /\ InitCommon /\ entryHook \in Hooks /\ exitHook \in Hooks
    /\ lim = [NoLimits EXCEPT !.post = MaxPostH, !.stop = MaxStopH]

NextH ==
    \/ RunAndLoop
    \/ AppStop
    \/ \E p \in AppThreads : postMessage(p, "A")
    \/ Destroy
    \/ \E t \in Threads : StopClose(t)

SpecH == InitH /\ [][NextH]_vars

\* SpecS: stopping. Application threads and handlers stop the component.
InitS ==
    /\ InitCommon /\ entryHook = "ok" /\ exitHook = "ok"
    /\ lim = [NoLimits EXCEPT !.post = MaxPostS, !.reg = 1, !.stop = MaxStopS]

NextS ==
    \/ RunAndLoop
    \/ AppStop
    \/ \E p \in AppThreads : postMessage(p, "A")
    \/ \E t \in AppThreads : registerMessageHandler(t, "A", "f1")
    \/ \E t \in LoopThreads : HandlerOk(t)
    \/ \E t \in LoopThreads : HandlerStop(t)

SpecS == InitS /\ [][NextS]_vars

\* SpecT: timers. Handlers start the Timer, one-shot or cyclic; its jobs
\* expire; application threads stop the component and its owner drops it.
InitT ==
    /\ InitCommon /\ entryHook = "ok" /\ exitHook = "ok"
    /\ lim = [NoLimits EXCEPT !.post = MaxPostT, !.reg = 1, !.stop = MaxStopT,
                              !.arm = MaxArmT, !.fire = MaxFire]

NextT ==
    \/ RunAndLoop
    \/ AppStop
    \/ \E p \in AppThreads : postMessage(p, "A")
    \/ \E t \in AppThreads : registerMessageHandler(t, "A", "f1")
    \/ \E t \in LoopThreads, c \in BOOLEAN : HandlerArm(t, c)
    \/ \E t \in LoopThreads : HandlerExecTimeout(t)
    \/ \E j \in jobs : onTimeout(j)
    \/ Destroy
    \/ \E t \in Threads : StopClose(t)

SpecT == InitT /\ [][NextT]_vars

\* SpecO: a Timer that stays one-shot. Handlers start, stop and restart it;
\* its jobs expire; application threads stop the component.
InitO ==
    /\ InitCommon /\ entryHook = "ok" /\ exitHook = "ok"
    /\ lim = [NoLimits EXCEPT !.post = MaxPostO, !.reg = 1, !.stop = MaxStopO,
                              !.arm = MaxArmO, !.fire = MaxFireO]

NextO ==
    \/ RunAndLoop
    \/ AppStop
    \/ \E p \in AppThreads : postMessage(p, "A")
    \/ \E t \in AppThreads : registerMessageHandler(t, "A", "f1")
    \/ \E t \in LoopThreads : HandlerArm(t, FALSE)
    \/ \E t \in LoopThreads : HandlerTimerStop(t)
    \/ \E t \in LoopThreads : HandlerTimerRestart(t)
    \/ \E t \in LoopThreads : HandlerExecTimeout(t)
    \/ \E j \in jobs : onTimeout(j)

SpecO == InitO /\ [][NextO]_vars

\* SpecC: a cyclic Timer, started once by a handler, whose callback may
\* call Timer::stop().
InitC ==
    /\ InitCommon /\ entryHook = "ok" /\ exitHook = "ok"
    /\ lim = [NoLimits EXCEPT !.post = MaxPostC, !.reg = 1, !.arm = 1,
                              !.fire = MaxFireC]

NextC ==
    \/ RunAndLoop
    \/ \E p \in AppThreads : postMessage(p, "A")
    \/ \E t \in AppThreads : registerMessageHandler(t, "A", "f1")
    \/ \E t \in LoopThreads : HandlerArm(t, TRUE)
    \/ \E t \in LoopThreads : HandlerExecTimeout(t)
    \/ \E t \in LoopThreads : CallbackStopsTimer(t)
    \/ \E j \in jobs : onTimeout(j)

SpecC == InitC /\ [][NextC]_vars

\* SpecB: a Timer used from several threads. Handlers of the component,
\* application threads and the loop thread of a second component start it;
\* its owner destroys it.
InitB ==
    /\ InitCommon /\ entryHook = "ok" /\ exitHook = "ok"
    /\ lim = [NoLimits EXCEPT !.post = MaxPostB, !.reg = 1, !.stop = MaxStopB,
                              !.arm = MaxArmB, !.fire = MaxFireB]

NextB ==
    \/ RunAndLoop
    \/ AppStop
    \/ \E p \in AppThreads : postMessage(p, "A")
    \/ \E t \in AppThreads : registerMessageHandler(t, "A", "f1")
    \/ \E t \in LoopThreads, c \in BOOLEAN : HandlerArm(t, c)
    \/ \E t \in AppThreads \cup {OtherLoop}, c \in BOOLEAN : TimerStartOn(t, c)
    \/ TimerDestroy
    \/ \E t \in LoopThreads : HandlerExecTimeout(t)
    \/ \E j \in JobsOnA : onTimeout(j)
    \/ \E j \in jobs : onTimeoutB(j)
    \/ \E j \in jobs : onTimeoutDangling(j)

SpecB == InitB /\ [][NextB]_vars

\* ------------------------------------------------------------- properties
\* The messages the loop has popped, in the order it popped them.
Popped == [i \in 1..Len(log) |-> log[i].m]

\* The thread that runs the component's message loop.
LoopThreadOf == IF mode = "Sync" THEN "main" ELSE "worker"

\* C1: two messages of one producer that the queue accepted are popped and
\* handed to their handlers in the order they were posted: a message is
\* popped only after every earlier accepted message of its producer, and
\* never twice.
C1_PerProducerFifo ==
    /\ \A i, j \in 1..Len(log) :
          (i < j /\ log[i].m.src = log[j].m.src) => log[i].m.n < log[j].m.n
    /\ \A j \in 1..Len(log), k \in 1..Len(accepted) :
          (accepted[k].src = log[j].m.src /\ accepted[k].n < log[j].m.n)
             => \E i \in 1..(j - 1) : log[i].m = accepted[k]

\* C1 witness: two messages of one producer were handed to the handler with
\* a message of another producer between them.
C1_Witness ==
    \E i, j, k \in 1..Len(log) :
       /\ i < j /\ j < k
       /\ log[i].m.src = log[k].m.src /\ log[j].m.src # log[i].m.src
       /\ log[i].out = "called" /\ log[k].out = "called"

\* C2: at most one handler of the component is executing.
C2_OneHandlerAtATime ==
    Cardinality({t \in LoopThreads : lpc[t] = "handler"}) <= 1

\* C2 witness: a handler is executing while another thread is inside stop()
\* and both application threads have posted or registered.
C2_Witness ==
    /\ \E t \in LoopThreads : lpc[t] = "handler"
    /\ \E u \in AppThreads : spc[u] # "idle"
    /\ Len(accepted) >= 2

\* C3: whatever happens to a popped message (it is null, it has no handler,
\* its handler throws), the loop goes back to waiting with the queue as it
\* was, open if it was open, and the loop ends only from waiting on a queue
\* that is closed and drained.
C3_LoopSurvives ==
    [][\A t \in LoopThreads :
          /\ (lpc[t] = "handler" /\ lpc'[t] # "handler")
                => (lpc'[t] = "wait" /\ qOpen' = qOpen)
          /\ (lpc[t] = "wait" /\ Len(log') > Len(log))
                => (lpc'[t] \in {"wait", "handler"} /\ qOpen' = qOpen
                    /\ queue' = Tail(queue))
          /\ (lpc[t] = "wait" /\ lpc'[t] \notin {"wait", "handler"})
                => (~qOpen /\ queue = <<>>)]_vars

\* C3 witness: a handler threw, a null message and a message without handler
\* were popped, and a later message was handed to its handler.
C3_Witness ==
    \E i, j \in 1..Len(log) :
       /\ i < j
       /\ log[i].out = "threw"
       /\ log[j].out = "called"
       /\ \E k \in 1..Len(log) : log[k].out \in {"null", "nohandler"}

\* C4: no exception thrown by onEntry or onExit leaves startMessageLoop.
C4_NoHookExceptionEscapes == \A t \in LoopThreads : lpc[t] # "escaped"

\* C5: a message is dispatched to the function registered last for its type.
C5_LatestHandlerWins ==
    \A i \in 1..Len(log) : log[i].out = "called" => log[i].f = log[i].latest

\* C6: once a stop() called on the started Async component by a thread
\* other than its worker has returned, the worker thread is joined, its loop
\* has ended and no handler runs.
C6_StopJoinsWorker ==
    extStopDone =>
       /\ workerThread = NoThread
       /\ lpc["worker"] = "done"
       /\ \A t \in LoopThreads : lpc[t] # "handler"

\* C7: when the loop has ended, the messages it popped are the messages the
\* queue accepted, in the order of their acceptance; a rejected message is
\* never popped.
C7_DrainedInOrder ==
    /\ \A t \in LoopThreads : lpc[t] = "done" => Popped = accepted
    /\ \A i \in 1..Len(log) : log[i].m \notin rejected
    /\ Len(log) <= Len(accepted)
    /\ \A i \in 1..Len(log) : log[i].m = accepted[i]

\* C7 witness: the loop has ended having popped two messages, one of them
\* accepted while a stop() was due, and a later message was rejected.
C7_Witness ==
    /\ \E t \in LoopThreads : lpc[t] = "done"
    /\ Len(log) >= 2
    /\ rejected # {}

\* C8: a stop() called by a handler, on the loop's thread, closes the queue
\* and returns; it neither joins nor throws.
C8_SelfStopReturns ==
    \A t \in LoopThreads :
       stopKind[t] = "self" =>
          /\ spc[t] # "joining"
          /\ stopRes[t] # "threw"
          /\ ~qOpen

\* C9: a stop() that directly follows a stop() of the same thread, called
\* from outside the loop after run() had returned and the first stop() had
\* joined the worker there is, changes nothing of the component (queue,
\* timer manager, jobs, worker handle), does not wait and does not throw.
C9_SecondStopChangesNothing ==
    [][\A t \in Threads :
          (/\ inSecond'[t] /\ spc'[t] # spc[t]
           /\ stopKind'[t] \in {"extAsync", "extSync"}
           /\ rpc = "done" /\ workerThread = NoThread)
             => /\ qOpen' = qOpen
                /\ timerMgr' = timerMgr
                /\ mgrStopped' = mgrStopped
                /\ jobs' = jobs
                /\ workerThread' = workerThread
                /\ spc'[t] # "joining"
                /\ stopRes'[t] # "threw"]_vars

\* C10: every call of the Timer's user callback is made by the thread of the
\* component's loop, for an expiration at which the component existed.
C10_CallbackOnLoopThread ==
    \A i \in 1..Len(cbLog) :
       /\ cbLog[i].thr = LoopThreadOf
       /\ cbLog[i].n \in 1..Len(expLog)
       /\ expLog[cbLog[i].n]

\* C10 witness: the callback was called for one expiration and another job
\* expired after the component had gone.
C10_Witness ==
    /\ Len(cbLog) >= 1
    /\ \E k \in 1..Len(expLog) : ~expLog[k]

\* Component::getActiveWeakPtr() on thread t returns a handle that is set.
getActiveWeakPtr(t) == tlwp[t]

\* Component::getActiveSharedPtr() on thread t returns a component.
getActiveSharedPtr(t) == tlwp[t] /\ alive

\* The calls of the Timer's user callback made for expirations of job id.
CallsOf(id) == {i \in 1..Len(cbLog) : expJob[cbLog[i].n] = id}

\* C11: the user callback is called at most once for each job that a
\* start() of the one-shot Timer registered, whatever Timer::stop,
\* Timer::restart and Component::stop do meanwhile.
C11_OneShotAtMostOnce ==
    \A id \in 1..nextJob : Cardinality(CallsOf(id)) <= 1

\* C11 witness: the Timer was started twice and the callback was called once
\* for each of the two jobs.
C11_Witness ==
    /\ Len(cbLog) = 2
    /\ expJob[cbLog[1].n] # expJob[cbLog[2].n]

\* C12: once the Timer is destroyed, no job it registered is scheduled in
\* any timer manager.
C12_NoJobAfterDestroy == ~tAlive => jobs = {}

\* C13: a Timer::start made by a thread that is not running a component's
\* loop registers no job, and running() is false after it.
C13_StartOffLoopDoesNothing ==
    \A i \in 1..Len(armLog) : ~armLog[i].loop => ~armLog[i].run

\* C14: on a thread that is not executing the component's loop,
\* getActiveWeakPtr() and getActiveSharedPtr() return empty.
C14_NoBindingOffLoop ==
    \A t \in Threads :
       ~InLoop(t) => (~getActiveWeakPtr(t) /\ ~getActiveSharedPtr(t))

\* C15 as stated: once the callback has called Timer::stop(), the callback
\* is not called again.
C15_NeverCalledAfterStop ==
    stopMark # <<>> => Len(cbLog) = stopMark[1]

\* C15: once the callback of the cyclic Timer has called Timer::stop(), the
\* job does not expire again; the callback is called afterwards only for
\* expirations that had happened before the stop.
C15_NoExpiryAfterStop ==
    stopMark # <<>> =>
       /\ Len(expLog) = stopMark[2]
       /\ jobs = {}
       /\ \A i \in 1..Len(cbLog) : cbLog[i].n <= stopMark[2]

\* C15 witness: the third call of the callback stopped the Timer and the
\* callback was called a fourth time, for an expiration queued before.
C15_Witness ==
    /\ stopMark # <<>>
    /\ stopMark[1] = 3
    /\ Len(cbLog) = 4

\* C16: stop() closes the queue only once the timer manager is stopped and
\* released, and no TimeoutMessage is ever posted to the closed queue.
C16_TimerStoppedBeforeClose ==
    [][/\ (qOpen /\ ~qOpen') => timerMgr = 0
       /\ \A m \in rejected' : m.src # "tmr"]_vars

\* C17: once a stop() called in Sync mode by a thread other than the loop's
\* has returned, the loop has finished and no handler runs.
C17_SyncStopWaitsForLoop ==
    \A t \in AppThreads :
       (stopKind[t] = "extSync" /\ stopRes[t] = "ret" /\ spc[t] = "idle")
          => lpc["main"] = "done"

\* C18: once stop() has closed the queue and released the timer manager,
\* the component holds no timer manager and has no scheduled timer job,
\* whatever the handlers that still run do.
C18_NoTimerAfterStop ==
    (~qOpen /\ \A t \in Threads : spc[t] \notin {"close", "timer"})
       => (timerMgr = 0 /\ jobs = {})

\* C19: the Timer, started only from loop threads of components, has at
\* most one scheduled job.
C19_AtMostOneJob ==
    (\A i \in 1..Len(armLog) : armLog[i].loop) => Cardinality(jobs) <= 1

\* C20: of two stop() calls made concurrently by threads other than the
\* worker, after run(Async) has returned, at most one joins the worker, and
\* both return.
C20_ConcurrentStopsJoinOnce ==
    (\A u \in AppThreads : stopKind[u] \in {"none", "extAsync"}) =>
       /\ Cardinality({t \in AppThreads : spc[t] = "joining"}) <= 1
       /\ \A t \in AppThreads : stopRes[t] # "threw"

====
